---- MODULE Spec2Model ----
(***************************************************************************)
(* Per-call audio orchestration of the voice bot: MediaStreamHandler       *)
(* (src/media_stream.py) with the transcription callback contract of       *)
(* src/deepgram_stt.py, the reply contract of src/llm_service.py and the   *)
(* chunk contract of src/deepgram_tts.py.                                  *)
(*                                                                         *)
(* Execution model.  The handler runs on one asyncio event loop: a task    *)
(* runs without interruption from one suspension point (an await that      *)
(* really waits: a timer, a network request, a lock that is taken) to the  *)
(* next, so each action below is the code between two suspension points.   *)
(* Timers and network completions are not ordered by the model: any        *)
(* suspended task may be the next to resume.  Task.cancel() only records   *)
(* the request; the CancelledError is raised in the task when it resumes.  *)
(* A task suspended in asyncio's own primitives (sleep, Lock.acquire,      *)
(* run_in_executor) resumes on the loop iteration after the request, so it *)
(* unwinds before the timer of any task created later can fire; a task     *)
(* suspended inside a client library (websocket send, HTTP request,        *)
(* streamed HTTP body) unwinds through that library's own cleanup and may  *)
(* take arbitrarily long.                                                  *)
(*                                                                         *)
(* Text is a sequence of one-character strings; the end marker of a reply  *)
(* is the character sequence END_CALL.                                     *)
(***************************************************************************)
EXTENDS Integers, Sequences, FiniteSets, TLC

\* ---------------------------------------------------------------- bounds
\* Settle-delay/Generation Tasks created in one session.
MaxTasks == 2
\* Non-empty transcription fragments delivered in one session.
MaxFragments == 3
\* Chunks delivered by one speech-synthesis stream.
MaxChunks == 1
\* Keepalive fillers started in one session.
MaxKeepalives == 1
\* Keepalive fillers started in a session of one turn.
MaxQuietKeepalives == 2
\* Frames in a full synthesis chunk (CHUNK_SIZE / MULAW_FRAME_SIZE is 20).
MaxChunkFrames == 2

\* ------------------------------------------------------ program constants
MULAW_FRAME_SIZE == 160

\* A full synthesis chunk (CHUNK_SIZE) and a short last chunk (what is left
\* of the audio, here a quarter of a frame).
FullChunk == MaxChunkFrames * MULAW_FRAME_SIZE
ShortChunk == MULAW_FRAME_SIZE \div 4

\* The end marker "[END_CALL]", its name shortened to one letter: like the
\* marker it begins and ends with a bracket and no end of it is a beginning.
END_CALL == <<"[", "E", "]">>
NoTask == 0
NoReason == "none"

\* The n-th fragment the transcription collaborator confirms: a word of n
\* letters, never blank (fragments are told apart by their length); the
\* second comes with a leading and the third with a trailing blank.
Fragment(n) ==
    (IF n = 2 THEN <<" ">> ELSE << >>) \o [i \in 1..n |-> "a"]
        \o (IF n = 3 THEN <<" ">> ELSE << >>)

\* Replies of the text-generation collaborator: empty, plain, with the end
\* marker, the end marker alone.
Replies == {<< >>, <<"y">>, <<"y", " ">> \o END_CALL, END_CALL}

\* A reply with the end marker inside the text of another end marker
\* ("[END_[END_CALL]CALL]").
NestedReply == <<"[">> \o END_CALL \o <<"E", "]">>

\* What get_patient_response returns when its request raised
\* ("Sorry, could you repeat that?").
FallbackReply == <<"s">>

\* SttEvent, as _on_transcript's docstring names its members.
SttEvents == {"FINAL", "SPEECH_FINAL", "UTTERANCE_END"}

TaskIds == 1..MaxTasks

\* ------------------------------------------------------------- text
IsSpace(c) == c = " "

RECURSIVE LStrip(_)
LStrip(s) == IF s # << >> /\ IsSpace(Head(s)) THEN LStrip(Tail(s)) ELSE s

RECURSIVE RStrip(_)
RStrip(s) ==
    IF s # << >> /\ IsSpace(s[Len(s)]) THEN RStrip(SubSeq(s, 1, Len(s) - 1)) ELSE s

\* str.strip()
Strip(s) == RStrip(LStrip(s))

\* self._accumulated_text += (" " + text) if self._accumulated_text else text
AppendFragmentNoSpace(acc, text) == acc \o text

AppendFragment(acc, text) == IF acc # << >> THEN acc \o <<" ">> \o text ELSE text

\* "[END_CALL]" in response
HasEndCall(response) ==
    \E i \in 1..(Len(response) - Len(END_CALL) + 1) :
        SubSeq(response, i, i + Len(END_CALL) - 1) = END_CALL

\* response.replace("[END_CALL]", ""): one pass from the left, each
\* occurrence found is dropped and the search goes on behind it.
RECURSIVE RemoveEndCall(_)
RemoveEndCall(s) ==
    IF Len(s) < Len(END_CALL) THEN s
    ELSE IF SubSeq(s, 1, Len(END_CALL)) = END_CALL
         THEN RemoveEndCall(SubSeq(s, Len(END_CALL) + 1, Len(s)))
         ELSE <<Head(s)>> \o RemoveEndCall(Tail(s))

\* clean = response.replace("[END_CALL]", "").strip()
CleanReply(response) == Strip(RemoveEndCall(response))

\* ------------------------------------------------------------- frames
AudioFrame(src, id, n, len) ==
    [kind |-> "audio", src |-> src, id |-> id, n |-> n, len |-> len]

\* The None sentinel; src and id only record who enqueued it.
EndOfTurnAsFrame(src, id) == AudioFrame(src, id, 0, 0)

EndOfTurn(src, id) == [kind |-> "end", src |-> src, id |-> id, n |-> 0, len |-> 0]

Min(a, b) == IF a < b THEN a ELSE b

\* for i in range(0, len(chunk), MULAW_FRAME_SIZE): frame = chunk[i : i + MULAW_FRAME_SIZE]
RECURSIVE ChunkFramesReversed(_, _, _, _)
ChunkFramesReversed(src, id, first, len) ==
    IF len <= 0 THEN << >>
    ELSE ChunkFramesReversed(src, id, first + 1, len - MULAW_FRAME_SIZE)
         \o <<AudioFrame(src, id, first, Min(MULAW_FRAME_SIZE, len))>>

RECURSIVE ChunkFrames(_, _, _, _)
ChunkFrames(src, id, first, len) ==
    IF len <= 0 THEN << >>
    ELSE <<AudioFrame(src, id, first, Min(MULAW_FRAME_SIZE, len))>>
         \o ChunkFrames(src, id, first + 1, len - MULAW_FRAME_SIZE)

\* Frames a chunk of len bytes yields.
FrameCount(len) == (len + MULAW_FRAME_SIZE - 1) \div MULAW_FRAME_SIZE

\* _clear_audio's drain loop.
DrainKeep(q) == q

DrainQueue(q) == << >>

VARIABLES
    run_pc,               \* run(): connecting, waiting, cleanup_close, done
    rx_pc,                \* _twilio_receiver: idle, recv, done, cancelled
    tx_pc,                \* _audio_sender: idle, get, silence_sent, sleep, sleep_failed,
                          \*   done, cancelled
    ka_pc,                \* _silence_keepalive: idle, sleep, tts, done, failed, cancelled
    ka_chunks,            \* chunks the running filler has received
    stt_running,          \* DeepgramSTT._running
    stream_sid,           \* self.stream_sid is set
    call_sid,             \* self.call_sid is set
    accumulated_text,     \* self._accumulated_text
    speak_task,           \* self._speak_task: a task id or NoTask
    ntasks,               \* tasks created so far
    task,                 \* the created tasks: pc, cancel request, locals
    lock_locked,          \* self._response_lock._locked
    lock_waiters,         \* self._response_lock._waiters, in order
    audio_queue,          \* self._audio_queue
    is_speaking,          \* self._is_speaking
    barge_in,             \* self._barge_in
    keepalive_index,      \* self._keepalive_index
    silence_elapsed,      \* now - self._last_activity >= SILENCE_KEEPALIVE_S
    stop,                 \* self._stop
    bot_initiated_hangup, \* self._bot_initiated_hangup
    call_end_reason,      \* self._call_end_reason
    websocket_close_code, \* self._websocket_close_code is set
    transcript,           \* self.transcript_logger.messages
    conversation_history, \* self.conversation_history
    saves,                \* calls of transcript_logger.save() and the length saved
    reported,             \* ended_by and reason as _cleanup reports them
    nfrags,               \* fragments delivered so far
    pending_frags,        \* fragments appended since the buffer was last emptied
    barge                 \* the last barge-in on a synthesizing task and what followed

vars == <<run_pc, rx_pc, tx_pc, ka_pc, ka_chunks, stt_running, stream_sid, call_sid, accumulated_text, speak_task, ntasks, task,
          lock_locked, lock_waiters, audio_queue, is_speaking, barge_in,
          keepalive_index, silence_elapsed, stop, bot_initiated_hangup,
          call_end_reason, websocket_close_code, transcript, conversation_history,
          saves, reported, nfrags, pending_frags, barge>>


\* ------------------------------------------------------------- tasks
\* A task that was never created.
NotCreated == [pc |-> "none", cancelled |-> FALSE, end_call |-> FALSE, chunks |-> 0,
               sent |-> FALSE]

\* asyncio.create_task(self._delayed_respond(RESPONSE_DELAY))
NewTask == [pc |-> "sleep", cancelled |-> FALSE, end_call |-> FALSE, chunks |-> 0,
            sent |-> FALSE]

\* A task that ended: only its cancel request is still read (Task.done()).
Ended(tk, t) ==
    [tk EXCEPT ![t].pc = "done", ![t].end_call = FALSE, ![t].chunks = 0, ![t].sent = FALSE]

\* The task goes on to its next suspension point, or ends.
Goto(tk, t, pc) == IF pc = "done" THEN Ended(tk, t) ELSE [tk EXCEPT ![t].pc = pc]

\* self._speak_task and not self._speak_task.done()
SpeakTaskLive(h, tk) == h # NoTask /\ tk[h].pc # "done"

\* self._speak_task.cancel(): the request is recorded, the task unwinds when it resumes.
CancelIgnored(tk, h) == tk

CancelTask(tk, h) == [tk EXCEPT ![h].cancelled = TRUE]

\* Suspension points inside asyncio itself: a cancelled task leaves them on
\* the next loop iteration.
PromptPcs == {"sleep", "lock_wait", "grace", "hangup_call"}

\* Suspension points of _do_generate_and_speak, all under the lock.
BodyPcs == {"clear_send", "llm", "tts", "tts_last", "grace", "hangup_call"}

\* No task created before t still has a cancellation to take at a prompt point.
EarlierUnwound(t) ==
    \A u \in TaskIds : u < t /\ task[u].cancelled => task[u].pc \notin PromptPcs

\* asyncio.Lock.acquire's fast path: not locked and every waiter cancelled.
LockAlwaysFree(locked, waiters, tk) == TRUE

LockFree(locked, waiters, tk) ==
    ~locked /\ \A i \in 1..Len(waiters) : tk[waiters[i]].cancelled

\* The waiter release() wakes: the first one not cancelled.
FirstWaiter(waiters, tk, t) ==
    \E i \in 1..Len(waiters) :
        /\ waiters[i] = t
        /\ \A j \in 1..(i - 1) : tk[waiters[j]].cancelled

RemoveWaiter(waiters, t) == SelectSeq(waiters, LAMBDA w : w # t)

\* if self.stream_sid: await self.ws.send_json({"event": "clear", ...})
ClearNeverSent(sid) == FALSE

ClearSends(sid) == sid

\* except asyncio.CancelledError: return  (the settle delay was interrupted)
SleepNeverInterrupted(cancelled) == FALSE

SleepInterrupted(cancelled) == cancelled

NoBarge == [task |-> NoTask, flushed |-> FALSE, cleared |-> FALSE]
NoReport == [ended_by |-> "none", reason |-> NoReason]

\* MediaStreamHandler.__init__: nothing runs yet and nothing is recorded.
NewHandler ==
    /\ rx_pc = "idle"
    /\ tx_pc = "idle"
    /\ ka_pc = "idle"
    /\ ka_chunks = 0
    /\ stt_running = FALSE
    /\ accumulated_text = << >>
    /\ speak_task = NoTask
    /\ ntasks = 0
    /\ task = [t \in TaskIds |-> NotCreated]
    /\ lock_locked = FALSE
    /\ lock_waiters = << >>
    /\ audio_queue = << >>
    /\ is_speaking = FALSE
    /\ barge_in = FALSE
    /\ keepalive_index = 0
    /\ silence_elapsed = FALSE
    /\ stop = FALSE
    /\ bot_initiated_hangup = FALSE
    /\ call_end_reason = NoReason
    /\ websocket_close_code = FALSE
    /\ transcript = << >>
    /\ conversation_history = << >>
    /\ saves = << >>
    /\ reported = NoReport
    /\ nfrags = 0
    /\ pending_frags = << >>
    /\ barge = NoBarge

\* The handler as the endpoint hands it to run(): the start event's streamSid
\* and callSid are stored on it (callSid read with .get, so it may be None).
InitWith(callSid) ==
    /\ run_pc = "connecting"
    /\ stream_sid = TRUE
    /\ call_sid = callSid
    /\ NewHandler

\* A call whose start event carried its callSid.
Init == InitWith(TRUE)

\* ------------------------------------------------------------- endpoint
\* media_stream_endpoint before the handler exists: the transport is accepted
\* and the first events are read until one is the start event.
InitialEvents == {"start", "connected", "media"}

AnyEvent(event) == TRUE
IsStart(event) == event = "start"

InitEndpoint ==
    /\ run_pc = "accepted"
    /\ stream_sid = FALSE
    /\ call_sid = FALSE
    /\ NewHandler

\* One event read by the endpoint's loop: the start event ends the loop, the
\* handler is created with the event's identifiers and run() is awaited;
\* "connected" and anything else is logged and the loop reads on.
EndpointEvent(event, callSid) ==
    /\ run_pc = "accepted"
    /\ IF IsStart(event)
       THEN /\ run_pc' = "connecting"
            /\ stream_sid' = (event = "start")
            /\ call_sid' = (event = "start" /\ callSid)
       ELSE UNCHANGED <<run_pc, stream_sid, call_sid>>
    /\ UNCHANGED <<rx_pc, tx_pc, ka_pc, ka_chunks, stt_running, accumulated_text,
                   speak_task, ntasks, task, lock_locked, lock_waiters, audio_queue,
                   is_speaking, barge_in, keepalive_index, silence_elapsed, stop,
                   bot_initiated_hangup, call_end_reason, websocket_close_code,
                   transcript, conversation_history, saves, reported, nfrags,
                   pending_frags, barge>>

\* The transport closes before a start event: receive_text raises, the
\* endpoint's except clause logs it and the endpoint returns.
EndpointClosed ==
    /\ run_pc = "accepted"
    /\ run_pc' = "closed"
    /\ UNCHANGED <<rx_pc, tx_pc, ka_pc, ka_chunks, stt_running, stream_sid, call_sid,
                   accumulated_text, speak_task, ntasks, task, lock_locked,
                   lock_waiters, audio_queue, is_speaking, barge_in, keepalive_index,
                   silence_elapsed, stop, bot_initiated_hangup, call_end_reason,
                   websocket_close_code, transcript, conversation_history, saves,
                   reported, nfrags, pending_frags, barge>>

Endpoint ==
    \/ \E event \in InitialEvents, callSid \in BOOLEAN : EndpointEvent(event, callSid)
    \/ EndpointClosed

\* ------------------------------------------------- transcription callback
\* _on_transcript(text, event): no suspension point, so one step.
\* DeepgramSTT delivers a non-empty final transcript, or the empty text with
\* the utterance-end signal.
OnTranscript(text, event) ==
    /\ run_pc # "connecting"
    /\ stt_running
    /\ (text = << >>) <=> (event = "UTTERANCE_END")
    /\ text # << >> => nfrags < MaxFragments /\ text = Fragment(nfrags + 1)
    /\ LET acc1 == IF text # << >> THEN AppendFragment(accumulated_text, text)
                   ELSE accumulated_text
           cancel1 == text # << >> /\ SpeakTaskLive(speak_task, task)
           task1 == IF cancel1 THEN CancelTask(task, speak_task) ELSE task
           handle1 == IF cancel1 THEN NoTask ELSE speak_task
           respond == event = "UTTERANCE_END" /\ Strip(acc1) # << >>
           cancel2 == respond /\ SpeakTaskLive(handle1, task1)
           task2 == IF cancel2 THEN CancelTask(task1, handle1) ELSE task1
           new == ntasks + 1
       IN  /\ respond => ntasks < MaxTasks
           /\ accumulated_text' = acc1
           /\ task' = IF respond THEN [task2 EXCEPT ![new] = NewTask] ELSE task2
           /\ speak_task' = IF respond THEN new ELSE handle1
           /\ ntasks' = IF respond THEN new ELSE ntasks
           /\ nfrags' = IF text # << >> THEN nfrags + 1 ELSE nfrags
           /\ pending_frags' = IF text # << >> THEN Append(pending_frags, text)
                               ELSE pending_frags
           /\ barge' = IF cancel1 /\ task[speak_task].pc \in {"tts", "tts_last"}
                       THEN [task |-> speak_task, flushed |-> FALSE, cleared |-> FALSE]
                       ELSE barge
    /\ silence_elapsed' = FALSE
    /\ UNCHANGED <<run_pc, rx_pc, tx_pc, ka_pc, ka_chunks, stt_running,
                   stream_sid, call_sid, lock_locked, lock_waiters,
                   audio_queue, is_speaking, barge_in, keepalive_index, stop,
                   bot_initiated_hangup, call_end_reason, websocket_close_code,
                   transcript, conversation_history, saves, reported>>


\* ------------------------------------------------------ barge-in / clear
\* _clear_audio up to its suspension point: set the barge-in signal, drain the
\* queue, hand the clear instruction to the transport.  The assignment
\* self._is_speaking = False follows the send (ClearSent, CancelClearSent).
ClearAudioBegin ==
    /\ barge_in' = TRUE
    /\ audio_queue' = DrainQueue(audio_queue)
    /\ barge' = [barge EXCEPT !.flushed = (DrainQueue(audio_queue) = << >>),
                              !.cleared = @ \/ ClearSends(stream_sid)]
    /\ is_speaking' = IF ClearSends(stream_sid) THEN is_speaking ELSE FALSE

\* ------------------------------------------------- settle delay and reply
\* The text is taken for dispatch: self._accumulated_text = ""
TextKept(acc) == acc
TextTaken(acc) == << >>

\* _delayed_respond after its sleep, and _generate_and_speak up to the first
\* suspension point: the lock wait, or the clear sent by _do_generate_and_speak.
DelayedRespond(t) ==
    /\ task[t].pc = "sleep"
    /\ ~SleepInterrupted(task[t].cancelled)
    /\ EarlierUnwound(t)
    /\ LET full_text == Strip(accumulated_text)
       IN  IF full_text = << >>
           THEN /\ task' = Ended(task, t)
                /\ UNCHANGED <<accumulated_text, silence_elapsed, transcript,
                               conversation_history, pending_frags,
                               lock_locked, lock_waiters, audio_queue, barge_in,
                               barge, is_speaking>>
           ELSE /\ accumulated_text' = TextTaken(accumulated_text)
                /\ silence_elapsed' = FALSE
                /\ transcript' = Append(transcript, [speaker |-> "agent", text |-> full_text])
                /\ conversation_history' =
                       Append(conversation_history, [role |-> "user", content |-> full_text])
                /\ pending_frags' = << >>
                /\ IF LockFree(lock_locked, lock_waiters, task)
                   THEN /\ lock_locked' = TRUE
                        /\ ClearAudioBegin
                        /\ task' = [task EXCEPT ![t].pc =
                                      IF ClearSends(stream_sid) THEN "clear_send" ELSE "llm"]
                        /\ UNCHANGED lock_waiters
                   ELSE /\ lock_waiters' = Append(lock_waiters, t)
                        /\ task' = [task EXCEPT ![t].pc = "lock_wait"]
                        /\ UNCHANGED <<lock_locked, audio_queue, barge_in, barge, is_speaking>>
    /\ UNCHANGED <<run_pc, rx_pc, tx_pc, ka_pc, ka_chunks, stt_running,
                   stream_sid, call_sid, speak_task, ntasks,
                   keepalive_index, stop, bot_initiated_hangup, call_end_reason,
                   websocket_close_code, saves, reported, nfrags>>

\* _delayed_respond cancelled during its sleep: except CancelledError: return.
DelayedRespondCancelled(t) ==
    /\ task[t].pc = "sleep"
    /\ SleepInterrupted(task[t].cancelled)
    /\ task' = Ended(task, t)
    /\ UNCHANGED <<run_pc, rx_pc, tx_pc, ka_pc, ka_chunks, stt_running,
                   stream_sid, call_sid, accumulated_text,
                   speak_task, ntasks, lock_locked, lock_waiters, audio_queue,
                   is_speaking, barge_in, keepalive_index, silence_elapsed, stop,
                   bot_initiated_hangup, call_end_reason, websocket_close_code,
                   transcript, conversation_history, saves, reported, nfrags, pending_frags, barge>>

\* async with self._response_lock: the waiter is woken and enters the body.
LockAcquired(t) ==
    /\ task[t].pc = "lock_wait"
    /\ ~task[t].cancelled
    /\ ~lock_locked
    /\ FirstWaiter(lock_waiters, task, t)
    /\ lock_locked' = TRUE
    /\ lock_waiters' = RemoveWaiter(lock_waiters, t)
    /\ ClearAudioBegin
    /\ task' = [task EXCEPT ![t].pc = IF ClearSends(stream_sid) THEN "clear_send" ELSE "llm"]
    /\ UNCHANGED <<run_pc, rx_pc, tx_pc, ka_pc, ka_chunks, stt_running,
                   stream_sid, call_sid, accumulated_text,
                   speak_task, ntasks, keepalive_index, silence_elapsed, stop,
                   bot_initiated_hangup, call_end_reason, websocket_close_code,
                   transcript, conversation_history, saves, reported, nfrags, pending_frags>>

\* Cancelled while waiting for the lock: _generate_and_speak's handler runs
\* _clear_audio without the lock.
LockWaitCancelled(t) ==
    /\ task[t].pc = "lock_wait"
    /\ task[t].cancelled
    /\ lock_waiters' = RemoveWaiter(lock_waiters, t)
    /\ ClearAudioBegin
    /\ task' = Goto(task, t, IF ClearSends(stream_sid) THEN "cancel_clear_send" ELSE "done")
    /\ UNCHANGED <<run_pc, rx_pc, tx_pc, ka_pc, ka_chunks, stt_running,
                   stream_sid, call_sid, accumulated_text,
                   speak_task, ntasks, lock_locked, keepalive_index,
                   silence_elapsed, stop, bot_initiated_hangup, call_end_reason,
                   websocket_close_code, transcript, conversation_history, saves,
                   reported, nfrags, pending_frags>>

\* _do_generate_and_speak's _clear_audio after its send: self._is_speaking = False,
\* then the reply is requested.
ClearSent(t) ==
    /\ task[t].pc = "clear_send"
    /\ ~task[t].cancelled
    /\ is_speaking' = FALSE
    /\ task' = [task EXCEPT ![t].pc = "llm"]
    /\ UNCHANGED <<run_pc, rx_pc, tx_pc, ka_pc, ka_chunks, stt_running,
                   stream_sid, call_sid, accumulated_text,
                   speak_task, ntasks, lock_locked, lock_waiters, audio_queue,
                   barge_in, keepalive_index, silence_elapsed, stop,
                   bot_initiated_hangup, call_end_reason, websocket_close_code,
                   transcript, conversation_history, saves, reported, nfrags, pending_frags, barge>>

\* The reply arrives (get_patient_response never raises: a failed request
\* yields a fixed plain reply): strip the end marker, record and start
\* synthesis.
LlmReply(t, response) ==
    /\ task[t].pc = "llm"
    /\ ~task[t].cancelled
    /\ LET end_call == HasEndCall(response)
           clean == CleanReply(response)
       IN  IF clean # << >>
           THEN /\ transcript' = Append(transcript, [speaker |-> "bot", text |-> clean])
                /\ conversation_history' =
                       Append(conversation_history, [role |-> "assistant", content |-> clean])
                /\ is_speaking' = TRUE
                /\ barge_in' = FALSE
                /\ task' = [task EXCEPT ![t].pc = "tts", ![t].end_call = end_call]
                /\ UNCHANGED lock_locked
           ELSE /\ task' = Goto([task EXCEPT ![t].end_call = end_call], t,
                                 IF end_call THEN "grace" ELSE "done")
                /\ lock_locked' = IF end_call THEN lock_locked ELSE FALSE
                /\ UNCHANGED <<transcript, conversation_history, is_speaking, barge_in>>
    /\ UNCHANGED <<run_pc, rx_pc, tx_pc, ka_pc, ka_chunks, stt_running,
                   stream_sid, call_sid, accumulated_text,
                   speak_task, ntasks, lock_waiters, audio_queue, keepalive_index,
                   silence_elapsed, stop, bot_initiated_hangup, call_end_reason,
                   websocket_close_code, saves, reported, nfrags, pending_frags, barge>>

\* The request of get_patient_response raises: it logs the failure and
\* returns its fixed sentence, which is handled like any reply.
LlmFailed(t) == LlmReply(t, FallbackReply)

\* After the sentinel: the grace period when the end marker was present,
\* otherwise the body ends and the lock is released.
AfterSpeak(t) ==
    /\ task' = Goto(task, t, IF task[t].end_call THEN "grace" ELSE "done")
    /\ lock_locked' = IF task[t].end_call THEN lock_locked ELSE FALSE

\* A chunk of the synthesis stream arrives: stop on the barge-in signal,
\* otherwise split it into frames and enqueue them.
TtsChunk(t, len) ==
    /\ task[t].pc = "tts"
    /\ ~task[t].cancelled
    /\ task[t].chunks < MaxChunks
    /\ IF barge_in
       THEN /\ audio_queue' = Append(audio_queue, EndOfTurn("reply", t))
            /\ AfterSpeak(t)
       ELSE /\ audio_queue' = audio_queue
                   \o ChunkFrames("reply", t, task[t].chunks * FrameCount(FullChunk) + 1, len)
            /\ task' = [task EXCEPT ![t].pc = IF len = FullChunk THEN "tts" ELSE "tts_last",
                                    ![t].chunks = @ + 1]
            /\ UNCHANGED lock_locked
    /\ UNCHANGED <<run_pc, rx_pc, tx_pc, ka_pc, ka_chunks, stt_running,
                   stream_sid, call_sid, accumulated_text,
                   speak_task, ntasks, lock_waiters, is_speaking, barge_in,
                   keepalive_index, silence_elapsed, stop, bot_initiated_hangup,
                   call_end_reason, websocket_close_code, transcript,
                   conversation_history, saves, reported, nfrags, pending_frags, barge>>

\* The synthesis stream ends: enqueue the end-of-utterance sentinel.
TtsEnd(t) ==
    /\ task[t].pc \in {"tts", "tts_last"}
    /\ ~task[t].cancelled
    /\ audio_queue' = Append(audio_queue, EndOfTurn("reply", t))
    /\ AfterSpeak(t)
    /\ UNCHANGED <<run_pc, rx_pc, tx_pc, ka_pc, ka_chunks, stt_running,
                   stream_sid, call_sid, accumulated_text,
                   speak_task, ntasks, lock_waiters, is_speaking, barge_in,
                   keepalive_index, silence_elapsed, stop, bot_initiated_hangup,
                   call_end_reason, websocket_close_code, transcript,
                   conversation_history, saves, reported, nfrags, pending_frags, barge>>

\* The synthesis request fails: except Exception logs it and the body ends.
TtsError(t) ==
    /\ task[t].pc = "tts"
    /\ ~task[t].cancelled
    /\ task' = Ended(task, t)
    /\ lock_locked' = FALSE
    /\ UNCHANGED <<run_pc, rx_pc, tx_pc, ka_pc, ka_chunks, stt_running,
                   stream_sid, call_sid, accumulated_text,
                   speak_task, ntasks, lock_waiters, audio_queue, is_speaking,
                   barge_in, keepalive_index, silence_elapsed, stop,
                   bot_initiated_hangup, call_end_reason, websocket_close_code,
                   transcript, conversation_history, saves, reported, nfrags, pending_frags, barge>>

\* _hangup's assignment of the termination reason.
HangupReason(old) == "bot_hangup"

\* The grace period is over: _hangup up to the call-control request.
GraceElapsed(t) ==
    /\ task[t].pc = "grace"
    /\ ~task[t].cancelled
    /\ bot_initiated_hangup' = TRUE
    /\ call_end_reason' = HangupReason(call_end_reason)
    /\ IF call_sid
       THEN /\ task' = [task EXCEPT ![t].pc = "hangup_call"]
            /\ UNCHANGED <<stop, lock_locked>>
       ELSE /\ stop' = TRUE
            /\ task' = Ended(task, t)
            /\ lock_locked' = FALSE
    /\ UNCHANGED <<run_pc, rx_pc, tx_pc, ka_pc, ka_chunks, stt_running,
                   stream_sid, call_sid, accumulated_text,
                   speak_task, ntasks, lock_waiters, audio_queue, is_speaking,
                   barge_in, keepalive_index, silence_elapsed, websocket_close_code,
                   transcript, conversation_history, saves, reported, nfrags, pending_frags, barge>>

\* _hangup after the call-control request: the except clause only logs, so
\* self._stop.set() runs whether hangup_call returned or raised.
StopOnlyIfHungUp(returned) == returned
StopAfterHangup(returned) == TRUE

\* hangup_call returned or raised (logged only): self._stop.set().
HangupReturned(t, returned) ==
    /\ task[t].pc = "hangup_call"
    /\ ~task[t].cancelled
    /\ stop' = StopAfterHangup(returned)
    /\ task' = Ended(task, t)
    /\ lock_locked' = FALSE
    /\ UNCHANGED <<run_pc, rx_pc, tx_pc, ka_pc, ka_chunks, stt_running,
                   stream_sid, call_sid, accumulated_text,
                   speak_task, ntasks, lock_waiters, audio_queue, is_speaking,
                   barge_in, keepalive_index, silence_elapsed, bot_initiated_hangup,
                   call_end_reason, websocket_close_code, transcript,
                   conversation_history, saves, reported, nfrags, pending_frags, barge>>

\* CancelledError raised inside the body: the lock is released and
\* _generate_and_speak's handler runs _clear_audio.
BodyCancelled(t) ==
    /\ task[t].pc \in BodyPcs
    /\ task[t].cancelled
    /\ lock_locked' = FALSE
    /\ ClearAudioBegin
    /\ task' = Goto(task, t, IF ClearSends(stream_sid) THEN "cancel_clear_send" ELSE "done")
    /\ UNCHANGED <<run_pc, rx_pc, tx_pc, ka_pc, ka_chunks, stt_running,
                   stream_sid, call_sid, accumulated_text,
                   speak_task, ntasks, lock_waiters, keepalive_index,
                   silence_elapsed, stop, bot_initiated_hangup, call_end_reason,
                   websocket_close_code, transcript, conversation_history, saves,
                   reported, nfrags, pending_frags>>

\* The handler's _clear_audio after its send: self._is_speaking = False.
CancelClearSent(t) ==
    /\ task[t].pc = "cancel_clear_send"
    /\ is_speaking' = FALSE
    /\ task' = Ended(task, t)
    /\ UNCHANGED <<run_pc, rx_pc, tx_pc, ka_pc, ka_chunks, stt_running,
                   stream_sid, call_sid, accumulated_text,
                   speak_task, ntasks, lock_locked, lock_waiters, audio_queue,
                   barge_in, keepalive_index, silence_elapsed, stop,
                   bot_initiated_hangup, call_end_reason, websocket_close_code,
                   transcript, conversation_history, saves, reported, nfrags, pending_frags, barge>>


\* ------------------------------------------------------ keepalive monitor
\* The silence threshold passes with no activity.  The elapsed time is read
\* only when the monitor wakes from its poll sleep.
TimePasses ==
    /\ ka_pc = "sleep"
    /\ ~silence_elapsed
    /\ silence_elapsed' = TRUE
    /\ UNCHANGED <<run_pc, rx_pc, tx_pc, ka_pc, ka_chunks, stt_running,
                   stream_sid, call_sid, accumulated_text,
                   speak_task, ntasks, task, lock_locked, lock_waiters, audio_queue,
                   is_speaking, barge_in, keepalive_index, stop,
                   bot_initiated_hangup, call_end_reason, websocket_close_code,
                   transcript, conversation_history, saves, reported, nfrags, pending_frags, barge>>

\* while not self._stop.is_set(): the loop's test after an iteration.
LoopForever(stopped, again) == again

LoopPc(stopped, again) == IF stopped THEN "done" ELSE again

\* elapsed >= SILENCE_KEEPALIVE_S and not self._is_speaking
KeepaliveAlwaysDue(elapsed, speaking) == TRUE

KeepaliveDue(elapsed, speaking) == elapsed /\ ~speaking

\* logger.info("Silence keepalive: %s", prompt): the prompt is logged, not
\* recorded as a turn.
KeepaliveRecorded(messages) == Append(messages, [speaker |-> "bot", text |-> <<"k">>])
KeepaliveLogged(messages) == messages

\* _silence_keepalive wakes from its poll sleep: start a filler (the
\* session's max-th at most), or loop.
KeepalivePollOf(max) ==
    /\ ka_pc = "sleep"
    /\ IF KeepaliveDue(silence_elapsed, is_speaking)
       THEN /\ keepalive_index < max
            /\ keepalive_index' = keepalive_index + 1
            /\ transcript' = KeepaliveLogged(transcript)
            /\ silence_elapsed' = FALSE
            /\ is_speaking' = TRUE
            /\ ka_pc' = "tts"
            /\ ka_chunks' = 0
       ELSE /\ ka_pc' = LoopPc(stop, "sleep")
            /\ UNCHANGED <<keepalive_index, silence_elapsed, is_speaking, ka_chunks,
                           transcript>>
    /\ UNCHANGED <<run_pc, rx_pc, tx_pc, stt_running, stream_sid,
                   call_sid, accumulated_text, speak_task, ntasks, task, lock_locked,
                   lock_waiters, audio_queue, barge_in, stop, bot_initiated_hangup,
                   call_end_reason, websocket_close_code,
                   conversation_history, saves, reported, nfrags, pending_frags, barge>>

KeepalivePoll == KeepalivePollOf(MaxKeepalives)

\* A chunk of the filler's synthesis stream arrives and is enqueued.
KeepaliveChunk(len) ==
    /\ ka_pc = "tts"
    /\ ka_chunks < MaxChunks
    /\ audio_queue' = audio_queue
           \o ChunkFrames("filler", keepalive_index, ka_chunks * FrameCount(FullChunk) + 1, len)
    /\ ka_chunks' = ka_chunks + 1
    /\ UNCHANGED <<run_pc, rx_pc, tx_pc, ka_pc, stt_running, stream_sid, call_sid, accumulated_text, speak_task, ntasks, task,
                   lock_locked, lock_waiters, is_speaking, barge_in, keepalive_index,
                   silence_elapsed, stop, bot_initiated_hangup, call_end_reason,
                   websocket_close_code, transcript, conversation_history, saves,
                   reported, nfrags, pending_frags, barge>>

\* The filler's stream ends: enqueue the sentinel and loop.
KeepaliveEnd ==
    /\ ka_pc = "tts"
    /\ audio_queue' = Append(audio_queue, EndOfTurn("filler", keepalive_index))
    /\ ka_pc' = LoopPc(stop, "sleep")
    /\ UNCHANGED <<run_pc, rx_pc, tx_pc, ka_chunks, stt_running, stream_sid, call_sid, accumulated_text, speak_task, ntasks, task,
                   lock_locked, lock_waiters, is_speaking, barge_in, keepalive_index,
                   silence_elapsed, stop, bot_initiated_hangup, call_end_reason,
                   websocket_close_code, transcript, conversation_history, saves,
                   reported, nfrags, pending_frags, barge>>

\* The filler's synthesis request fails: nothing catches it, the task ends.
KeepaliveError ==
    /\ ka_pc = "tts"
    /\ ka_pc' = "failed"
    /\ UNCHANGED <<run_pc, rx_pc, tx_pc, ka_chunks, stt_running, stream_sid, call_sid, accumulated_text, speak_task, ntasks, task,
                   lock_locked, lock_waiters, audio_queue, is_speaking, barge_in,
                   keepalive_index, silence_elapsed, stop, bot_initiated_hangup,
                   call_end_reason, websocket_close_code, transcript,
                   conversation_history, saves, reported, nfrags, pending_frags, barge>>

\* ------------------------------------------------------------ frame pacer
\* _send_frame: nothing is sent without a stream id.
FrameNeverSent(sid) == FALSE

FrameSent(sid) == sid

\* Ghost: a frame of a reply went out while its task was still running.
MarkSent(tk, frame, out) ==
    IF out /\ frame.src = "reply" /\ tk[frame.id].pc # "done"
    THEN [tk EXCEPT ![frame.id].sent = TRUE]
    ELSE tk

\* The pacer waits on the queue: with nothing sent for a frame time (get),
\* or with a silence frame handed to the transport less than a frame time
\* ago (silence_sent: no sleep follows that send, the loop continues at once).
GetPcs == {"get", "silence_sent"}

\* if frame is None
NeverNone(frame) == FALSE

IsNone(frame) == frame.kind = "end"

\* _audio_sender got a queue item: the sentinel clears the is-speaking flag,
\* a frame is handed to _send_frame and the pacer sleeps one frame time.
PacerFrame ==
    /\ tx_pc \in GetPcs
    /\ audio_queue # << >>
    /\ audio_queue' = Tail(audio_queue)
    /\ IF IsNone(Head(audio_queue))
       THEN /\ is_speaking' = FALSE
            /\ tx_pc' = LoopPc(stop, tx_pc)
            /\ UNCHANGED task
       ELSE /\ tx_pc' = "sleep"
            /\ task' = MarkSent(task, Head(audio_queue), FrameSent(stream_sid))
            /\ UNCHANGED is_speaking
    /\ UNCHANGED <<run_pc, rx_pc, ka_pc, ka_chunks, stt_running, stream_sid, call_sid, accumulated_text, speak_task, ntasks,
                   lock_locked, lock_waiters, barge_in, keepalive_index,
                   silence_elapsed, stop, bot_initiated_hangup, call_end_reason,
                   websocket_close_code, transcript, conversation_history, saves,
                   reported, nfrags, pending_frags,
                   barge>>

\* _audio_sender got a frame and the transport's send raises: _send_frame
\* logs a warning and returns, the pacer sleeps one frame time as after any
\* frame (sleep_failed is that sleep, following a send that raised).
PacerSendFails ==
    /\ tx_pc \in GetPcs
    /\ audio_queue # << >>
    /\ Head(audio_queue).kind = "audio"
    /\ stream_sid
    /\ audio_queue' = Tail(audio_queue)
    /\ tx_pc' = "sleep_failed"
    /\ UNCHANGED <<run_pc, rx_pc, ka_pc, ka_chunks, stt_running, stream_sid, call_sid,
                   accumulated_text, speak_task, ntasks, task, lock_locked,
                   lock_waiters, is_speaking, barge_in, keepalive_index,
                   silence_elapsed, stop, bot_initiated_hangup, call_end_reason,
                   websocket_close_code, transcript, conversation_history, saves,
                   reported, nfrags, pending_frags, barge>>

\* The queue stayed empty for the idle interval: a silence frame is handed
\* to _send_frame, and no sleep follows.
PacerTimeout ==
    /\ tx_pc = "get"
    /\ audio_queue = << >>
    /\ tx_pc' = IF FrameSent(stream_sid) THEN "silence_sent" ELSE LoopPc(stop, "get")
    /\ UNCHANGED <<run_pc, rx_pc, ka_pc, ka_chunks, stt_running, stream_sid, call_sid, accumulated_text, speak_task, ntasks, task,
                   lock_locked, lock_waiters, audio_queue, is_speaking, barge_in,
                   keepalive_index, silence_elapsed, stop, bot_initiated_hangup,
                   call_end_reason, websocket_close_code, transcript,
                   conversation_history, saves, reported, nfrags, pending_frags, barge>>

\* The silence frame is out and a frame time has passed since, the queue
\* still empty: the pacer is at its loop test or waits on.
PacerSilenceOut ==
    /\ tx_pc = "silence_sent"
    /\ audio_queue = << >>
    /\ tx_pc' = LoopPc(stop, "get")
    /\ UNCHANGED <<run_pc, rx_pc, ka_pc, ka_chunks, stt_running, stream_sid, call_sid, accumulated_text, speak_task, ntasks, task,
                   lock_locked, lock_waiters, audio_queue, is_speaking, barge_in,
                   keepalive_index, silence_elapsed, stop, bot_initiated_hangup,
                   call_end_reason, websocket_close_code, transcript,
                   conversation_history, saves, reported, nfrags, pending_frags, barge>>

\* The frame is out and the 20 ms sleep is over.
PacerWake ==
    /\ tx_pc \in {"sleep", "sleep_failed"}
    /\ tx_pc' = LoopPc(stop, "get")
    /\ UNCHANGED <<run_pc, rx_pc, ka_pc, ka_chunks, stt_running, stream_sid, call_sid, accumulated_text, speak_task, ntasks, task,
                   lock_locked, lock_waiters, audio_queue, is_speaking, barge_in,
                   keepalive_index, silence_elapsed, stop, bot_initiated_hangup,
                   call_end_reason, websocket_close_code, transcript,
                   conversation_history, saves, reported, nfrags, pending_frags, barge>>

\* --------------------------------------------------------------- receiver
\* A media event: the audio is forwarded to the transcription session.
RecvMedia ==
    /\ rx_pc = "recv"
    /\ ~stop
    /\ UNCHANGED <<run_pc, rx_pc, tx_pc, ka_pc, ka_chunks, stt_running, stream_sid,
                   call_sid, accumulated_text, speak_task, ntasks, task, lock_locked,
                   lock_waiters, audio_queue, is_speaking, barge_in, keepalive_index,
                   silence_elapsed, stop, bot_initiated_hangup, call_end_reason,
                   websocket_close_code, transcript, conversation_history, saves,
                   reported, nfrags, pending_frags, barge>>

\* The receiver leaves its loop: its finally sets the stop signal.
\*   stop_flag    a message arrives after the stop signal was set (break)
\*   other kinds  the reason the branch assigns
ReceiverReason(kind, old) ==
    CASE kind = "stop_flag" -> old
      [] kind = "stop_event" -> "twilio_stop_event"
      [] kind = "closed" -> "websocket_closed"
      [] kind = "disconnect" -> "websocket_disconnect_code"
      [] kind = "error" -> "receiver_error"

ReceiverExits == {"stop_flag", "stop_event", "closed", "disconnect", "error"}

RecvExit(kind) ==
    /\ rx_pc = "recv"
    /\ (kind = "stop_flag") => stop
    /\ (kind = "stop_event") => ~stop
    /\ call_end_reason' = ReceiverReason(kind, call_end_reason)
    /\ websocket_close_code' = (websocket_close_code \/ kind = "disconnect")
    /\ stop' = TRUE
    /\ rx_pc' = "done"
    /\ UNCHANGED <<run_pc, tx_pc, ka_pc, ka_chunks, stt_running, stream_sid, call_sid, accumulated_text, speak_task, ntasks, task,
                   lock_locked, lock_waiters, audio_queue, is_speaking, barge_in,
                   keepalive_index, silence_elapsed, bot_initiated_hangup,
                   transcript, conversation_history, saves, reported, nfrags, pending_frags, barge>>

\* ------------------------------------------------------- run and cleanup
\* run(): the transcription session opened; the three loops are started.
SttConnected ==
    /\ run_pc = "connecting"
    /\ run_pc' = "waiting"
    /\ stt_running' = TRUE
    /\ silence_elapsed' = FALSE
    /\ rx_pc' = "recv"
    /\ tx_pc' = "get"
    /\ ka_pc' = "sleep"
    /\ UNCHANGED <<ka_chunks, stream_sid, call_sid,
                   accumulated_text, speak_task, ntasks, task, lock_locked,
                   lock_waiters, audio_queue, is_speaking, barge_in, keepalive_index,
                   stop, bot_initiated_hangup, call_end_reason, websocket_close_code,
                   transcript, conversation_history, saves, reported, nfrags, pending_frags, barge>>

SystemErrorNote == <<"E">>

\* transcript_logger.save(): the messages recorded so far are written out.
SaveNothing(log, messages) == log

Save(log, messages) == Append(log, Len(messages))

\* run(): the transcription session could not be opened.
SttConnectFailed ==
    /\ run_pc = "connecting"
    /\ run_pc' = "done"
    /\ transcript' = Append(transcript, [speaker |-> "bot", text |-> SystemErrorNote])
    /\ saves' = Save(saves, transcript')
    /\ UNCHANGED <<rx_pc, tx_pc, ka_pc, ka_chunks, stt_running, stream_sid, call_sid, accumulated_text, speak_task, ntasks, task,
                   lock_locked, lock_waiters, audio_queue, is_speaking, barge_in,
                   keepalive_index, silence_elapsed, stop, bot_initiated_hangup,
                   call_end_reason, websocket_close_code, conversation_history,
                   reported, nfrags, pending_frags, barge>>

LoopEnded(pc) == pc \in {"done", "failed"}

\* reason = self._call_end_reason or ("bot_hangup" if bot-initiated else "unknown")
ReportedReason(reason, bot) ==
    IF reason # NoReason THEN reason ELSE IF bot THEN "bot_hangup" ELSE "unknown"

\* asyncio.wait returned (a loop finished): _cleanup sets the stop signal,
\* reports who ended the call and why, (unless the bot hung up) queries the
\* call details, and starts closing the transcription session, which
\* delivers no further event.
CleanupStart ==
    /\ run_pc = "waiting"
    /\ LoopEnded(rx_pc) \/ LoopEnded(tx_pc) \/ LoopEnded(ka_pc)
    /\ stop' = TRUE
    /\ reported' = [ended_by |-> IF bot_initiated_hangup THEN "bot" ELSE "remote",
                    reason |-> ReportedReason(call_end_reason, bot_initiated_hangup)]
    /\ run_pc' = "cleanup_close"
    /\ stt_running' = FALSE
    /\ UNCHANGED <<rx_pc, tx_pc, ka_pc, ka_chunks, stream_sid,
                   call_sid, accumulated_text, speak_task, ntasks, task, lock_locked,
                   lock_waiters, audio_queue, is_speaking, barge_in, keepalive_index,
                   silence_elapsed, bot_initiated_hangup, call_end_reason,
                   websocket_close_code, transcript, conversation_history, saves, nfrags, pending_frags, barge>>

\* for t in self._tasks: if not t.done(): t.cancel()
CancelLoop(pc) == IF LoopEnded(pc) THEN pc ELSE "cancelled"

\* The transcription session is closed: cancel the three loops, record the
\* remaining text, save the transcript.
CleanupFinish ==
    /\ run_pc = "cleanup_close"
    /\ run_pc' = "done"
    /\ rx_pc' = CancelLoop(rx_pc)
    /\ tx_pc' = CancelLoop(tx_pc)
    /\ ka_pc' = CancelLoop(ka_pc)
    /\ LET remaining == Strip(accumulated_text)
       IN  IF remaining # << >>
           THEN /\ transcript' = Append(transcript, [speaker |-> "agent", text |-> remaining])
                /\ accumulated_text' = << >>
                /\ pending_frags' = << >>
           ELSE UNCHANGED <<transcript, accumulated_text, pending_frags>>
    /\ saves' = Save(saves, transcript')
    /\ UNCHANGED <<ka_chunks, stt_running, stream_sid, call_sid,
                   speak_task, ntasks, task, lock_locked, lock_waiters, audio_queue,
                   is_speaking, barge_in, keepalive_index, silence_elapsed, stop,
                   bot_initiated_hangup, call_end_reason, websocket_close_code,
                   conversation_history, reported, nfrags, barge>>

\* ------------------------------------------------------------------ spec
\* Transcription events, the reply tasks they start, and the frame pacer.
Conversation ==
    \/ \E text \in {Fragment(n) : n \in 1..MaxFragments} \cup {<< >>}, event \in SttEvents :
           OnTranscript(text, event)
    \/ \E t \in TaskIds : DelayedRespond(t)
    \/ \E t \in TaskIds : DelayedRespondCancelled(t)
    \/ \E t \in TaskIds : LockAcquired(t)
    \/ \E t \in TaskIds : LockWaitCancelled(t)
    \/ \E t \in TaskIds : ClearSent(t)
    \/ \E t \in TaskIds, response \in Replies : LlmReply(t, response)
    \/ \E t \in TaskIds, len \in {FullChunk, ShortChunk} : TtsChunk(t, len)
    \/ \E t \in TaskIds : TtsEnd(t)
    \/ \E t \in TaskIds : TtsError(t)
    \/ \E t \in TaskIds : GraceElapsed(t)
    \/ \E t \in TaskIds, returned \in BOOLEAN : HangupReturned(t, returned)
    \/ \E t \in TaskIds : BodyCancelled(t)
    \/ \E t \in TaskIds : CancelClearSent(t)
    \/ PacerFrame
    \/ PacerTimeout
    \/ PacerSilenceOut
    \/ PacerWake

\* run(), the receiver while the remote party stays on the line, the
\* keepalive monitor's poll, and _cleanup.
Session ==
    \/ SttConnected
    \/ SttConnectFailed
    \/ RecvMedia
    \/ RecvExit("stop_flag")
    \/ KeepalivePoll
    \/ CleanupStart
    \/ CleanupFinish

\* The remote party or the transport ends the media stream.
RemoteEnds == \E kind \in ReceiverExits \ {"stop_flag"} : RecvExit(kind)

\* The silence threshold passes and a filler is synthesized.
Silence ==
    \/ TimePasses
    \/ \E len \in {FullChunk, ShortChunk} : KeepaliveChunk(len)
    \/ KeepaliveEnd
    \/ KeepaliveError

\* What can go wrong in a turn besides a failed synthesis: a reply holding
\* the end marker twice over, a failed reply request, a failed send.
Faults ==
    \/ \E t \in TaskIds : LlmReply(t, NestedReply)
    \/ \E t \in TaskIds : LlmFailed(t)
    \/ PacerSendFails

Next == Conversation \/ Session \/ RemoteEnds \/ Silence \/ Faults

Spec == Init /\ [][Next]_vars

\* The session with a caller who never stays silent for the threshold.
NextCall == Conversation \/ Session \/ RemoteEnds

SpecCall == Init /\ [][NextCall]_vars

\* The session with silences, the remote party staying on the line.
NextSilence == Conversation \/ Session \/ Silence

SpecSilence == Init /\ [][NextSilence]_vars

\* The session while the remote party stays on the line, every started
\* piece of work getting its turn: a task's timer fires and its requests
\* complete, the pacer runs, cleanup goes on once it can.  Transcription
\* events are up to the caller and need not come.
NextLine == Conversation \/ Session

TaskStep(t) ==
    \/ DelayedRespond(t)
    \/ DelayedRespondCancelled(t)
    \/ LockAcquired(t)
    \/ LockWaitCancelled(t)
    \/ ClearSent(t)
    \/ \E response \in Replies : LlmReply(t, response)
    \/ \E len \in {FullChunk, ShortChunk} : TtsChunk(t, len)
    \/ TtsEnd(t)
    \/ TtsError(t)
    \/ GraceElapsed(t)
    \/ \E returned \in BOOLEAN : HangupReturned(t, returned)
    \/ BodyCancelled(t)
    \/ CancelClearSent(t)

SpecLineFair ==
    /\ Init
    /\ [][NextLine]_vars
    /\ \A t \in TaskIds : WF_vars(TaskStep(t))
    /\ WF_vars(PacerFrame \/ PacerTimeout \/ PacerSilenceOut \/ PacerWake)
    /\ WF_vars(CleanupStart \/ CleanupFinish)

\* The same for a call whose start event may have carried no callSid.
SpecHangupFair ==
    /\ \E callSid \in BOOLEAN : InitWith(callSid)
    /\ [][NextLine]_vars
    /\ \A t \in TaskIds : WF_vars(TaskStep(t))
    /\ WF_vars(PacerFrame \/ PacerTimeout \/ PacerSilenceOut \/ PacerWake)
    /\ WF_vars(CleanupStart \/ CleanupFinish)

\* One turn of the caller, who then may speak on but ends no second turn:
\* the transcription events, the one reply task and the frame pacer.
Turn ==
    \/ \E text \in {Fragment(n) : n \in 1..MaxFragments} \cup {<< >>}, event \in SttEvents :
           OnTranscript(text, event) /\ ntasks' <= 1
    \/ DelayedRespond(1)
    \/ DelayedRespondCancelled(1)
    \/ ClearSent(1)
    \/ \E response \in Replies : LlmReply(1, response)
    \/ \E len \in {FullChunk, ShortChunk} : TtsChunk(1, len)
    \/ TtsEnd(1)
    \/ TtsError(1)
    \/ GraceElapsed(1)
    \/ \E returned \in BOOLEAN : HangupReturned(1, returned)
    \/ BodyCancelled(1)
    \/ CancelClearSent(1)
    \/ PacerFrame
    \/ PacerTimeout
    \/ PacerSilenceOut
    \/ PacerWake

\* One turn and its faults, the remote party staying on the line.
NextReply == Turn \/ Faults \/ Session

SpecReply == Init /\ [][NextReply]_vars

\* The endpoint from the accepted transport on, and one turn of the session
\* it runs.
NextEndpoint == Endpoint \/ Turn \/ Session

SpecEndpoint == InitEndpoint /\ [][NextEndpoint]_vars

\* One turn on a line that falls silent more than once.
NextQuiet == Turn \/ Session \/ Silence \/ KeepalivePollOf(MaxQuietKeepalives)

SpecQuiet == Init /\ [][NextQuiet]_vars

\* One turn of a caller who says one thing and then listens.
Listen ==
    \/ \E text \in {Fragment(1), << >>}, event \in SttEvents :
           OnTranscript(text, event) /\ ntasks' <= 1
    \/ DelayedRespond(1)
    \/ ClearSent(1)
    \/ \E response \in Replies : LlmReply(1, response)
    \/ \E len \in {FullChunk, ShortChunk} : TtsChunk(1, len)
    \/ TtsEnd(1)
    \/ TtsError(1)
    \/ GraceElapsed(1)
    \/ \E returned \in BOOLEAN : HangupReturned(1, returned)
    \/ PacerFrame
    \/ PacerTimeout
    \/ PacerSilenceOut
    \/ PacerWake

\* Such a turn with every way the session can end, every started piece of work
\* getting its turn: the reply task's timer fires and its requests complete,
\* the pacer gets its frame or its timeout, a started filler stream delivers
\* or fails, asyncio.wait returns once a loop has finished and the awaits of
\* _cleanup return.
NextEnd == Listen \/ Session \/ RemoteEnds \/ Silence

SpecEndFair ==
    /\ Init
    /\ [][NextEnd]_vars
    /\ WF_vars(TaskStep(1))
    /\ WF_vars(PacerFrame \/ PacerTimeout \/ PacerSilenceOut \/ PacerWake)
    /\ WF_vars(KeepalivePoll \/ KeepaliveEnd \/ KeepaliveError)
    /\ WF_vars(CleanupStart \/ CleanupFinish)

\* ----------------------------------------------------------- properties
\* Positions of the playback queue holding an item of reply task t.
QueueOf(t) == {i \in 1..Len(audio_queue) : audio_queue[i].src = "reply" /\ audio_queue[i].id = t}

\* Reply tasks with an item in the playback queue.
QueueTasks == {audio_queue[i].id : i \in {j \in 1..Len(audio_queue) : audio_queue[j].src = "reply"}}

C2_OneTaskInQueue == Cardinality(QueueTasks) <= 1

\* The second task's audio is queued after the first task was interrupted
\* while synthesizing.
C2_Witness ==
    /\ \E i \in QueueOf(2) : audio_queue[i].kind = "audio"
    /\ task[1].cancelled
    /\ barge.task = 1

\* C3: the two producers are serialized: a keepalive filler and a reply task
\* are never synthesizing at the same time, and the playback queue never
\* holds items of a filler together with items of a reply.
C3_ProducersSerialized ==
    /\ ~(ka_pc = "tts" /\ \E t \in TaskIds : task[t].pc \in {"tts", "tts_last"})
    /\ ~(QueueTasks # {} /\ \E i \in 1..Len(audio_queue) : audio_queue[i].src = "filler")

\* Tasks inside the body of _do_generate_and_speak.
InBody == {t \in TaskIds : task[t].pc \in BodyPcs}

\* C4: at most one task is inside the pipeline body, and a task that was
\* created while an earlier one was still running finds the earlier one
\* cancelled: it is in the body only when no earlier task is.
C4_OneTaskInBody ==
    /\ Cardinality(InBody) <= 1
    /\ \A t, u \in TaskIds :
           (t < u /\ task[t].pc \notin {"none", "done"} /\ task[u].pc # "none")
               => task[t].cancelled

\* The second task waits for the lock while the first, cancelled, is still
\* inside the body.
C4_Witness ==
    /\ task[2].pc = "lock_wait"
    /\ task[1].pc \in BodyPcs
    /\ task[1].cancelled

\* The step in which cancelled task t unwinds: its handler's _clear_audio
\* drains the queue.
Unwinds(t) ==
    /\ task[t].cancelled
    /\ task[t].pc \in BodyPcs \cup {"lock_wait"}
    /\ task'[t].pc \in {"cancel_clear_send", "done"}

\* C5: the step that completes the cancellation of a task leaves the playback
\* queue empty, and from then on no frame the cancelled task enqueued is in
\* the queue, however many tasks were cancelled before.
C5_NoStaleFrames ==
    [][/\ \A t \in TaskIds : Unwinds(t) => audio_queue' = << >>
       /\ \A t \in TaskIds :
              (task'[t].cancelled /\ task'[t].pc \in {"cancel_clear_send", "done"})
                  => \A i \in 1..Len(audio_queue') :
                         ~(audio_queue'[i].src = "reply" /\ audio_queue'[i].id = t)]_vars

\* A second cancellation has been processed: both tasks were cancelled
\* and have unwound, the later one after it had started synthesizing.
C5_Witness ==
    /\ \A t \in TaskIds : task[t].cancelled /\ task[t].pc \in {"cancel_clear_send", "done"}
    /\ barge.task = 2
    /\ barge.flushed

\* The pacer's step that sends a frame of reply task t.
PacerSends(t) ==
    /\ tx_pc \in GetPcs
    /\ audio_queue # << >>
    /\ Head(audio_queue).kind = "audio"
    /\ Head(audio_queue).src = "reply"
    /\ Head(audio_queue).id = t
    /\ FrameSent(stream_sid)
    /\ tx_pc' = "sleep"

\* C6 as stated: a task that new speech cancels has had none of its frames
\* sent.
C6_CancelledBeforeSent == \A t \in TaskIds : task[t].cancelled => ~task[t].sent

\* C6 amended: no frame of a task is sent once the task's cancellation has
\* been processed (its handler has flushed the queue).
C6_NoFrameAfterCancel ==
    [][\A t \in TaskIds :
          PacerSends(t) => ~(task[t].cancelled /\ task[t].pc \in {"cancel_clear_send", "done"})]_vars

\* The first task was interrupted while synthesizing and has unwound; the
\* pacer has since sent a frame of the second task.
C6_Witness ==
    /\ barge.task = 1
    /\ task[1].cancelled /\ task[1].pc = "done"
    /\ task[2].sent

\* The text expected of a dispatch: the fragments joined by single spaces,
\* without the blanks at either end.
SpaceJoined(frags) ==
    LET RECURSIVE Join(_)
        Join(n) == IF n = 0 THEN << >>
                   ELSE IF n = 1 THEN frags[1]
                   ELSE Join(n - 1) \o <<" ">> \o frags[n]
    IN  Join(Len(frags))

Trimmed(s) ==
    LET solid == {i \in 1..Len(s) : s[i] # " "}
    IN  IF solid = {} THEN << >>
        ELSE SubSeq(s, CHOOSE i \in solid : \A j \in solid : i <= j,
                       CHOOSE i \in solid : \A j \in solid : i >= j)

\* The step in which task t's settle delay is over and its turn is dispatched.
Dispatches(t) ==
    /\ task[t].pc = "sleep"
    /\ task'[t].pc \in {"lock_wait", "clear_send", "llm"}

\* C7: the text a settle timer dispatches and records as the remote turn is
\* the pending fragments joined by single spaces and trimmed, and the
\* utterance buffer is empty afterwards.
C7_DispatchedText ==
    [][\A t \in TaskIds :
          Dispatches(t) =>
              LET expected == Trimmed(SpaceJoined(pending_frags))
              IN  /\ transcript' =
                         Append(transcript, [speaker |-> "agent", text |-> expected])
                  /\ conversation_history' =
                         Append(conversation_history, [role |-> "user", content |-> expected])
                  /\ accumulated_text' = << >>]_vars

\* A turn of two fragments, with blanks at both ends, has been dispatched.
C7_Witness ==
    /\ accumulated_text = << >>
    /\ \E i \in 1..Len(transcript) :
           /\ transcript[i].speaker = "agent"
           /\ transcript[i].text = <<"a", "a", " ", "a", "a", "a">>
    /\ \E t \in TaskIds : task[t].pc = "llm"

\* C8: a settle timer that newer speech supersedes is cancelled, and when it
\* wakes it ends without effect: the transcript, the conversation history,
\* the utterance buffer, the lock, the playback queue and the playback flags
\* stay as they are, so no turn is dispatched and no reply is started.
C8_SupersededTimer ==
    [][\A t \in TaskIds :
          /\ (task[t].pc = "sleep" /\ speak_task = t /\ nfrags' > nfrags)
                 => task'[t].cancelled
          /\ (task[t].pc = "sleep" /\ task[t].cancelled /\ task'[t].pc # "sleep")
                 => /\ task'[t].pc = "done"
                    /\ UNCHANGED <<transcript, conversation_history, accumulated_text,
                                   pending_frags, lock_locked, lock_waiters,
                                   audio_queue, is_speaking, barge_in, silence_elapsed>>]_vars

\* The first timer was superseded by a second fragment and has ended;
\* nothing was dispatched.
C8_Witness ==
    /\ task[1].cancelled
    /\ task[1].pc = "done"
    /\ transcript = << >>
    /\ Len(pending_frags) = 2

\* C9: once the termination reason is set it is never overwritten with a
\* different value.
C9_ReasonNeverOverwritten ==
    [][call_end_reason # NoReason => call_end_reason' = call_end_reason]_vars

\* C10: a reply that holds the end marker always leads to termination: once
\* the reply is out and the grace period runs, the call-control termination
\* is eventually invoked and the stop signal set.
C10_EndCallTerminates ==
    \A t \in TaskIds :
        (task[t].end_call /\ task[t].pc = "grace") ~> (bot_initiated_hangup /\ stop)

\* The step in which task t's grace period is over and it enters _hangup.
InvokesHangup(t) ==
    /\ task[t].pc = "grace"
    /\ ~task[t].cancelled
    /\ task'[t].pc \in {"hangup_call", "done"}

\* The step in which task t puts an item into the playback queue.
Enqueues(t) ==
    /\ task[t].pc \in {"tts", "tts_last"}
    /\ Len(audio_queue') > Len(audio_queue)
    /\ audio_queue'[Len(audio_queue')].src = "reply"
    /\ audio_queue'[Len(audio_queue')].id = t

\* C11: a task that newer speech has cancelled, or that is still running when
\* the session has been torn down, never enters _hangup and enqueues nothing
\* from then on.
C11_SupersededSkipsHangup ==
    [][\A t \in TaskIds :
          (task[t].cancelled \/ run_pc = "done")
              => ~InvokesHangup(t) /\ ~Enqueues(t)]_vars

\* C12: no reply recorded in the transcript as the bot's, appended to
\* the conversation history as the assistant's, and so handed to synthesis,
\* holds the end marker.
C12_NoEndMarkerSpoken ==
    /\ \A i \in 1..Len(transcript) :
           transcript[i].speaker = "bot" => ~HasEndCall(transcript[i].text)
    /\ \A i \in 1..Len(conversation_history) :
           conversation_history[i].role = "assistant"
               => ~HasEndCall(conversation_history[i].content)

\* The reply last recorded, which the task in synthesis is speaking.
LastReply ==
    LET bots == {i \in 1..Len(transcript) : transcript[i].speaker = "bot"}
    IN  IF bots = {} THEN << >>
        ELSE transcript[CHOOSE i \in bots : \A j \in bots : j <= i].text

\* The step in which the reply request of task t fails.
RequestFails(t) ==
    /\ task[t].pc = "llm"
    /\ task'[t].pc = "tts"
    /\ LastReply' = FallbackReply

\* C13: a turn whose reply request failed enqueues no frames, and the failure
\* leaves the session Active: the stop signal unset, the three loops running.
C13_FailedRequestSilent ==
    [][\A t \in TaskIds :
          /\ Enqueues(t) => LastReply # FallbackReply
          /\ RequestFails(t) => UNCHANGED <<stop, run_pc, rx_pc, tx_pc, ka_pc>>]_vars

\* The step in which the synthesis stream of task t raises: the task ends
\* and nothing, not even the sentinel, is put into the queue.
SynthesisFails(t) ==
    /\ task[t].pc = "tts"
    /\ ~task[t].cancelled
    /\ task'[t].pc = "done"
    /\ audio_queue' = audio_queue

\* C14: when the synthesis stream of a reply fails, the task ends leaving no
\* audio of that reply in the playback queue, and the session stays Active.
C14_FailedSynthesisLeavesNoAudio ==
    [][\A t \in TaskIds :
          SynthesisFails(t)
              => /\ QueueOf(t) = {}
                 /\ UNCHANGED <<stop, run_pc, rx_pc, tx_pc, ka_pc>>]_vars

\* Nothing but a filler's synthesis has failed: the receiver and the pacer
\* run and the stop signal is unset.
OnlyFillerFailed ==
    /\ ka_pc = "failed"
    /\ rx_pc = "recv"
    /\ tx_pc \in GetPcs \cup {"sleep", "sleep_failed"}
    /\ ~stop

\* C15: the failure of a filler's synthesis does not end the session: while
\* nothing else has ended it, the session stays Active.
C15_FillerFailureRecovered ==
    [][OnlyFillerFailed => run_pc' = "waiting"]_vars

\* C16: after a send that failed the pacer stops: it does not go back to
\* take the next frame from the queue.
C16_SendFailureStopsPacer ==
    [][tx_pc = "sleep_failed" => tx_pc' \in {"sleep_failed", "done", "cancelled"}]_vars

\* Sentinels of filler k in the playback queue.
FillerEnds(k) ==
    {i \in 1..Len(audio_queue) :
        audio_queue[i].src = "filler" /\ audio_queue[i].id = k /\ audio_queue[i].kind = "end"}

\* C17: a filler is started only by a poll that finds the silence threshold
\* passed and the is-speaking flag false; the step starts exactly one filler
\* and resets the activity timestamp, so that the next filler needs the
\* threshold to pass again; a poll that finds the line silent and idle does
\* start one; what is enqueued belongs to the filler started last, and its
\* sentinel is enqueued once.
C17_OneFillerPerSilence ==
    [][/\ keepalive_index' # keepalive_index
           => /\ silence_elapsed /\ ~is_speaking
              /\ ka_pc = "sleep" /\ ka_pc' = "tts"
              /\ keepalive_index' = keepalive_index + 1
              /\ ~silence_elapsed'
              /\ is_speaking'
       /\ (ka_pc = "sleep" /\ ka_pc' = "done") => ~(silence_elapsed /\ ~is_speaking)
       /\ \A i \in (Len(audio_queue) + 1)..Len(audio_queue') :
              audio_queue'[i].src = "filler"
                  => ka_pc = "tts" /\ audio_queue'[i].id = keepalive_index
       /\ \A k \in 1..keepalive_index : Cardinality(FillerEnds(k)) <= 1]_vars

\* The second filler of a session is being synthesized and has a frame in
\* the queue: the threshold passed again after the first one's reset.
C17_Witness ==
    /\ keepalive_index = 2
    /\ ka_pc = "tts"
    /\ \E i \in 1..Len(audio_queue) :
           audio_queue[i].src = "filler" /\ audio_queue[i].id = 2 /\ audio_queue[i].kind = "audio"

\* Something has happened that ends the session: the receiver has left its
\* loop (the transport closed, sent its stop event or raised), the keepalive
\* loop has raised, the pacer has left its loop, or the bot has issued the
\* call termination and set the stop signal.
EndTriggered ==
    /\ run_pc = "waiting"
    /\ rx_pc = "done" \/ ka_pc = "failed" \/ tx_pc = "done" \/ stop

\* C18: from Active every such event leads to Ended: _cleanup runs to its end
\* and the transcript has been saved, once; it is never saved twice.
C18_EndsInCleanup ==
    /\ EndTriggered ~> (run_pc = "done" /\ Len(saves) = 1)
    /\ [](Len(saves) <= 1)
    /\ [](run_pc = "waiting" => Len(saves) = 0)

\* The bot has ended the call while the remote side stayed on the line: the
\* receiver was still in its loop when _cleanup cancelled it, and the
\* transcript is saved.
C18_Witness ==
    /\ run_pc = "done"
    /\ bot_initiated_hangup
    /\ rx_pc = "cancelled"
    /\ Len(saves) = 1

\* C19: once the session has ended (_cleanup has begun) no settle timer
\* dispatches the pending text to a reply; the step that ends _cleanup
\* records the text still pending as one turn of the remote side and saves
\* the transcript with it.
C19_PendingTextAtEnd ==
    [][/\ run_pc # "waiting" => \A t \in TaskIds : ~Dispatches(t)
       /\ (run_pc = "cleanup_close" /\ run_pc' = "done" /\ Strip(accumulated_text) # << >>)
              => /\ transcript' = Append(transcript, [speaker |-> "agent",
                                                      text |-> Strip(accumulated_text)])
                 /\ accumulated_text' = << >>
                 /\ saves' = <<Len(transcript')>>]_vars

\* C20: after _cleanup has completed nothing of the session acts any more:
\* no reply is recorded or enqueued, nothing is sent or flushed, no call
\* termination is issued, and the three loops stay as _cleanup left them.
C20_QuietAfterCleanup ==
    [][run_pc = "done"
          => /\ UNCHANGED <<rx_pc, tx_pc, ka_pc>>
             /\ UNCHANGED <<audio_queue, is_speaking, barge_in>>
             /\ UNCHANGED <<transcript, conversation_history>>
             /\ UNCHANGED <<bot_initiated_hangup, call_end_reason, stop>>
             /\ \A t \in TaskIds : ~InvokesHangup(t) /\ ~Enqueues(t) /\ ~Dispatches(t)]_vars

\* The step in which run() finds that the transcription session did not open.
ConnectFails ==
    /\ run_pc = "connecting"
    /\ run_pc' # "waiting"

\* The session that never became Active.
NeverActive == run_pc = "done" /\ rx_pc = "idle"

\* C21: when the transcription session cannot be opened the session ends at
\* once: run() returns, the receiver, the pacer and the keepalive monitor are
\* not started, the system note is the only transcript entry and the
\* transcript is saved once, with that entry; nothing happens afterwards.
C21_ConnectFailureEnds ==
    /\ [][ConnectFails
             => /\ run_pc' = "done"
                /\ rx_pc' = "idle" /\ tx_pc' = "idle" /\ ka_pc' = "idle"
                /\ transcript' = <<[speaker |-> "bot", text |-> SystemErrorNote]>>
                /\ saves' = <<1>>]_vars
    /\ [](NeverActive
             => /\ tx_pc = "idle" /\ ka_pc = "idle"
                /\ transcript = <<[speaker |-> "bot", text |-> SystemErrorNote]>>
                /\ saves = <<1>>
                /\ ntasks = 0 /\ audio_queue = << >> /\ ~stop)

\* The connection has failed and run() has returned.
C21_Witness ==
    /\ NeverActive
    /\ Len(transcript) = 1
    /\ Len(saves) = 1

\* The termination reasons: the transport closed without a stop event, the
\* stop event, a close with a close code, a receiver exception, the bot's
\* own hangup.
DefinedReasons ==
    {"websocket_closed", "twilio_stop_event", "websocket_disconnect_code",
     "receiver_error", "bot_hangup"}

\* C22: when a session that was Active has ended, the reason _cleanup
\* reports is one of the five termination reasons, whichever loop finished
\* first.
C22_ReasonDefined ==
    (run_pc \in {"cleanup_close", "done"} /\ rx_pc # "idle")
        => reported.reason \in DefinedReasons

\* The pacer has handed a frame to the transport: a silence frame, or an
\* audio frame after which it sleeps.
Sending == tx_pc \in {"silence_sent", "sleep"}

\* The session is Active, the stop signal unset, and the pacer waits on the
\* queue.
PacerWaiting == run_pc = "waiting" /\ ~stop /\ tx_pc = "get"

C24_FramesPaced ==
    [][Sending => ~(tx_pc' # tx_pc /\ Sending')]_vars

\* Queue q with the items of r put behind it.
Extends(q, r) == Len(r) >= Len(q) /\ SubSeq(r, 1, Len(q)) = q

\* The pacer's step that takes an audio frame and hands it to the transport.
SendsHead ==
    /\ tx_pc \in GetPcs
    /\ tx_pc' \in {"sleep", "sleep_failed"}

\* The audio frames of one producer (a reply task or a filler) are queued
\* in the order of their numbers.
InGenerationOrder(q) ==
    \A i, j \in 1..Len(q) :
        (i < j /\ q[i].kind = "audio" /\ q[j].kind = "audio"
               /\ q[i].src = q[j].src /\ q[i].id = q[j].id)
            => q[i].n < q[j].n

\* C25: the playback queue is first-in first-out: a step puts items behind
\* those queued, or takes the oldest one, or flushes the queue; the frame
\* the pacer sends is the oldest item and leaves the queue with the send, so
\* that it is not sent again; and the frames of one task are queued, and so
\* sent, in the order they were generated, also behind those already sent.
C25_SentInOrder ==
    /\ [][(audio_queue' # audio_queue
              => \/ Extends(audio_queue, audio_queue')
                 \/ audio_queue' = Tail(audio_queue)
                 \/ audio_queue' = << >>)
          /\ (SendsHead
                 => /\ audio_queue # << >>
                    /\ Head(audio_queue).kind = "audio"
                    /\ audio_queue' = Tail(audio_queue))
          /\ (\A t \in TaskIds :
                 Enqueues(t)
                     => \A i \in (Len(audio_queue) + 1)..Len(audio_queue') :
                            \/ audio_queue'[i].kind # "audio"
                            \/ audio_queue'[i].n > task[t].chunks * FrameCount(FullChunk))]_vars
    /\ [](InGenerationOrder(audio_queue))
    /\ [](\A t \in TaskIds :
              task[t].pc \in {"tts", "tts_last"}
                  => \A i \in QueueOf(t) :
                         audio_queue[i].n <= task[t].chunks * FrameCount(FullChunk))

\* The first frame of a reply is out and its second frame is the oldest item
\* of the queue, a filler's frames enqueued behind it.
C25_Witness ==
    /\ task[1].sent
    /\ Len(audio_queue) >= 2
    /\ Head(audio_queue) = AudioFrame("reply", 1, 2, MULAW_FRAME_SIZE)
    /\ audio_queue[Len(audio_queue)].src = "filler"

\* Positions of a task in synthesis.
TtsPcs == {"tts", "tts_last"}

StartsSynthesis(t) ==
    /\ task[t].pc = "llm"
    /\ task'[t].pc \in TtsPcs

\* The step in which task t leaves synthesis, neither cancelled nor failed.
FinishesSynthesis(t) ==
    /\ task[t].pc \in TtsPcs
    /\ ~task[t].cancelled
    /\ task'[t].pc \in {"grace", "done"}
    /\ ~SynthesisFails(t)

\* Sentinels of reply task t in the playback queue.
ReplyEnds(t) == {i \in QueueOf(t) : audio_queue[i].kind = "end"}

\* C27: a non-empty stripped reply is appended to the transcript and to the
\* conversation history in the step that starts its synthesis, in which
\* nothing is enqueued yet; a task enqueues its sentinel in the step that
\* finishes its synthesis and in no other, one sentinel, behind everything
\* queued; and no frame of the task lies behind its sentinel.
C27_RecordedThenSpoken ==
    /\ [][\A t \in TaskIds :
              /\ StartsSynthesis(t)
                     => /\ LastReply' # << >>
                        /\ transcript' =
                               Append(transcript, [speaker |-> "bot", text |-> LastReply'])
                        /\ conversation_history' =
                               Append(conversation_history,
                                      [role |-> "assistant", content |-> LastReply'])
                        /\ audio_queue' = audio_queue
              /\ FinishesSynthesis(t)
                     => /\ Len(audio_queue') = Len(audio_queue) + 1
                        /\ Extends(audio_queue, audio_queue')
                        /\ audio_queue'[Len(audio_queue')].kind = "end"
                        /\ audio_queue'[Len(audio_queue')].src = "reply"
                        /\ audio_queue'[Len(audio_queue')].id = t
              /\ (Enqueues(t) /\ ~FinishesSynthesis(t))
                     => \A i \in (Len(audio_queue) + 1)..Len(audio_queue') :
                            audio_queue'[i].kind = "audio"]_vars
    /\ [](\A t \in TaskIds :
              /\ Cardinality(ReplyEnds(t)) <= 1
              /\ \A i \in ReplyEnds(t) : \A j \in QueueOf(t) : j <= i
              /\ ReplyEnds(t) # {} => task[t].pc \notin TtsPcs)

\* A reply was synthesized to its end: its two frames and its sentinel are
\* queued in this order and the task has ended, its reply recorded.
C27_Witness ==
    /\ task[1].pc = "done" /\ ~task[1].cancelled
    /\ Len(audio_queue) = 3
    /\ QueueOf(1) = {1, 2, 3}
    /\ ReplyEnds(1) = {3}
    /\ LastReply # << >>

\* The step in which the reply of task t turns out to be the end marker
\* alone: nothing is left to speak and the grace period starts.
MarkerOnly(t) ==
    /\ task[t].pc = "llm"
    /\ task'[t].pc = "grace"

\* Task t is in the grace period of such a reply: the remote turn it answers
\* is still the last transcript entry.
MarkerOnlyGrace(t) ==
    /\ task[t].pc = "grace"
    /\ ~task[t].cancelled
    /\ transcript # << >>
    /\ transcript[Len(transcript)].speaker = "agent"

\* Nothing is recorded or enqueued when the reply is the end marker alone.
MarkerOnlySilent ==
    [][\A t \in TaskIds :
          MarkerOnly(t)
              => UNCHANGED <<transcript, conversation_history, audio_queue, is_speaking>>]_vars

\* C28: when the reply is the end marker alone nothing is appended to the
\* transcript or the history and nothing is enqueued, and the call
\* termination is still invoked once the grace period is over.
C28_MarkerOnlyHangsUp ==
    /\ MarkerOnlySilent
    /\ \A t \in TaskIds : MarkerOnlyGrace(t) ~> bot_initiated_hangup

\* The pacer's step that takes the end-of-turn marker from the queue (a
\* flush is a step of a reply task).
DequeuesSentinel ==
    /\ tx_pc \in GetPcs
    /\ audio_queue # << >>
    /\ Head(audio_queue).kind = "end"
    /\ audio_queue' = Tail(audio_queue)
    /\ task' = task

\* C29: the step in which the pacer takes the end-of-turn marker clears the
\* is-speaking flag and hands nothing to the transport: the pacer stays
\* waiting on the queue or leaves its loop; and what the pacer does hand to
\* the transport is never the marker.
C29_SentinelNotSent ==
    [][/\ DequeuesSentinel
           => /\ ~is_speaking'
              /\ tx_pc' \in {tx_pc, "done"}
       /\ SendsHead => (audio_queue # << >> /\ Head(audio_queue).kind # "end")]_vars

\* The one reply of the session was synthesized and played to its end: the
\* pacer has taken its sentinel, the flag is clear and the pacer waits.
C29_Witness ==
    /\ ntasks = 1
    /\ task[1].pc = "done" /\ ~task[1].cancelled
    /\ LastReply # << >>
    /\ audio_queue = << >>
    /\ ~is_speaking
    /\ tx_pc \in GetPcs
    /\ run_pc = "waiting"

\* The keepalive monitor's step that starts a filler.
StartsFiller == keepalive_index' # keepalive_index

\* Playback is active: a reply or a filler is being synthesized, or an
\* audio frame is pending in the playback queue.
PlaybackActive ==
    \/ \E t \in TaskIds : task[t].pc \in TtsPcs
    \/ ka_pc = "tts"
    \/ \E i \in 1..Len(audio_queue) : audio_queue[i].kind = "audio"

\* C30: the keepalive monitor starts a filler only when no playback is
\* active, and the fillers of a session are numbered in sequence (the
\* number selects the prompt of the rotating set).
C30_FillerOnlyWhenIdle ==
    [][StartsFiller
          => /\ ~PlaybackActive
             /\ keepalive_index' = keepalive_index + 1]_vars

\* The step in which _hangup comes to its end in task t: the call-control
\* request has returned or raised, or there was no call identifier to send.
HangupEnds(t) ==
    /\ task[t].pc \in {"grace", "hangup_call"}
    /\ ~task[t].cancelled
    /\ task'[t].pc = "done"

\* C31: bot-initiated termination is best-effort: when the call-control
\* request fails or no call identifier is known, _hangup still sets the stop
\* signal and marks the termination as the bot's, the request is not made
\* again, and the session reaches Ended with the bot reported as the actor.
C31_HangupBestEffort ==
    /\ [][\A t \in TaskIds :
              /\ (HangupEnds(t) => (stop' /\ bot_initiated_hangup'))
              /\ (task[t].pc = "hangup_call"
                     => task'[t].pc \in {"hangup_call", "done", "cancel_clear_send"})]_vars
    /\ (run_pc = "waiting" /\ stop /\ bot_initiated_hangup)
           ~> (run_pc = "done" /\ reported.ended_by = "bot" /\ Len(saves) = 1)

\* A call without a call identifier that the bot has ended: no request was
\* made, and the session is over with the bot as the actor.
C31_Witness ==
    /\ ~call_sid
    /\ run_pc = "done"
    /\ reported.ended_by = "bot"
    /\ call_end_reason = "bot_hangup"
    /\ Len(saves) = 1

\* C32: every audio frame in the playback queue, whether a reply task or
\* the keepalive monitor enqueued it, has exactly the frame size, whatever
\* the lengths of the chunks the synthesis stream delivered.
C32_FramesFullSize ==
    \A i \in 1..Len(audio_queue) :
        audio_queue[i].kind = "audio" => audio_queue[i].len = MULAW_FRAME_SIZE

\* C33: a handler runs only after a start event: while the endpoint reads
\* its first events nothing of a session exists, the events before the start
\* event change nothing, a running or finished handler has the start event's
\* stream identifier, and when the transport closes before a start event the
\* endpoint is over for good with no handler run and no transcript written.
C33_StartOnly ==
    /\ [](run_pc \in {"accepted", "closed"} => (NewHandler /\ ~stream_sid))
    /\ [](run_pc \notin {"accepted", "closed"} => stream_sid)
    /\ [][run_pc = "closed" => UNCHANGED vars]_vars

\* The transport was closed before any start event came.
C33_Witness ==
    /\ run_pc = "closed"
    /\ saves = << >>
    /\ rx_pc = "idle"

\* The lengths of the words of a text, in order (run counts the letters of
\* the word being read).  The n-th fragment is a word of n letters.
RECURSIVE WordLengths(_, _)
WordLengths(text, run) ==
    IF text = << >> THEN (IF run > 0 THEN <<run>> ELSE << >>)
    ELSE IF Head(text) = " "
         THEN (IF run > 0 THEN <<run>> ELSE << >>) \o WordLengths(Tail(text), 0)
         ELSE WordLengths(Tail(text), run + 1)

\* The words of the remote-side entries of a transcript, in order.
RECURSIVE AgentWords(_)
AgentWords(messages) ==
    IF messages = << >> THEN << >>
    ELSE (IF Head(messages).speaker = "agent"
          THEN WordLengths(Head(messages).text, 0) ELSE << >>)
         \o AgentWords(Tail(messages))

\* The fragments delivered so far, each once and in arrival order.
Delivered == [n \in 1..nfrags |-> n]

\* C34: the fragments delivered to _on_transcript are, each once and in
\* arrival order, in the remote-side entries of the transcript or still in
\* the utterance buffer, and when the transcript has been emitted all of
\* them are in the entries that were emitted.
C34_FragmentsConserved ==
    /\ AgentWords(transcript) \o WordLengths(accumulated_text, 0) = Delivered
    /\ Len(saves) > 0
           => AgentWords(SubSeq(transcript, 1, saves[1])) = Delivered

\* All fragments were delivered and emitted in two remote-side entries,
\* the second one recorded by _cleanup, while a newer task had cancelled an
\* older one.
C34_Witness ==
    /\ Len(saves) = 1
    /\ nfrags = MaxFragments
    /\ Len(SelectSeq(SubSeq(transcript, 1, saves[1]), LAMBDA m : m.speaker = "agent")) = 2
    /\ \E t \in TaskIds : task[t].cancelled

\* C35: whenever the is-speaking flag is set it is cleared again while the
\* session stays Active, whether or not the remote side speaks again.
C35_SpeakingCleared ==
    is_speaking ~> (~is_speaking \/ run_pc # "waiting")

\* Tasks that exist, have not finished and have no cancellation requested.
LiveTasks == {t \in TaskIds : task[t].pc \notin {"none", "done"} /\ ~task[t].cancelled}

\* The step in which _on_transcript creates a task.
CreatesTask == ntasks' = ntasks + 1

\* C36: at most one task is neither finished nor cancel-requested, and it is
\* the one _speak_task refers to; when a task is created every earlier one
\* has finished or has its cancellation requested.
C36_SingleLiveTask ==
    /\ [](Cardinality(LiveTasks) <= 1)
    /\ [](\A t \in LiveTasks : speak_task = t)
    /\ [][CreatesTask
             => /\ speak_task' = ntasks'
                /\ \A t \in 1..ntasks :
                       task'[t].pc = "done" \/ task'[t].cancelled]_vars

\* The second task is live and referenced while the first, cancelled when
\* the second was created, is still inside the body.
C36_Witness ==
    /\ ntasks = 2
    /\ speak_task = 2
    /\ LiveTasks = {2}
    /\ task[1].cancelled
    /\ task[1].pc \in BodyPcs

\* C37: at Ended the reported actor is the bot exactly when _hangup was
\* invoked, and with the bot as the actor the reported reason is bot_hangup,
\* however _hangup and the receiver's exit interleave.
C37_ActorMatchesReason ==
    run_pc = "done"
        => /\ (reported.ended_by = "bot") <=> bot_initiated_hangup
           /\ (reported.ended_by = "bot") => (reported.reason = "bot_hangup")

\* C38: nothing is appended to the transcript after it has been emitted:
\* what was emitted holds every entry recorded for the session.
C38_EmittedIsFinal ==
    Len(saves) > 0 => Len(transcript) = saves[Len(saves)]

\* A step of the keepalive monitor on a filler: it starts one, enqueues the
\* frames of a chunk, enqueues the sentinel, or the synthesis fails.
FillerStep ==
    /\ ka_pc \in {"sleep", "tts"}
    /\ run_pc' = run_pc
    /\ \/ keepalive_index' # keepalive_index
       \/ ka_chunks' # ka_chunks
       \/ ka_pc = "tts" /\ ka_pc' # "tts"

\* C39: a filler changes only the keepalive index, the activity timestamp,
\* the is-speaking flag and the playback queue, to which it only appends
\* its own items: the transcript and the history stay as they are, no task
\* and no other loop is touched, nothing is flushed and no clear is sent.
C39_FillerEffect ==
    [][FillerStep
          => /\ UNCHANGED <<transcript, conversation_history, accumulated_text>>
             /\ UNCHANGED <<task, speak_task, ntasks, lock_locked, lock_waiters>>
             /\ UNCHANGED <<barge_in, barge, rx_pc, tx_pc, stt_running>>
             /\ UNCHANGED <<stop, bot_initiated_hangup, call_end_reason, saves, reported>>
             /\ Extends(audio_queue, audio_queue')
             /\ \A i \in (Len(audio_queue) + 1)..Len(audio_queue') :
                    audio_queue'[i].src = "filler"]_vars

\* A filler was synthesized to its end after a reply was recorded: its
\* sentinel is queued behind what was there and the monitor sleeps again.
C39_Witness ==
    /\ keepalive_index = 1
    /\ ka_pc = "sleep"
    /\ run_pc = "waiting"
    /\ Len(transcript) = 2
    /\ audio_queue # << >>
    /\ audio_queue[Len(audio_queue)] = EndOfTurn("filler", 1)

\* The step that ends the handler's _clear_audio in cancelled task t: its
\* clear instruction is out and it resets the is-speaking flag.
HandlerResets(t) ==
    /\ task[t].pc = "cancel_clear_send"
    /\ task'[t].pc = "done"

\* C40: the flush a cancelled task performs in its cancellation handler
\* discards no item a later task enqueued and does not set the barge-in
\* signal while a later task is synthesizing, and the end of that flush does
\* not reset the is-speaking flag while a later task is synthesizing.
C40_LateCleanupHarmless ==
    [][\A t, u \in TaskIds :
          (t < u /\ task[t].cancelled)
              => /\ (Unwinds(t) => QueueOf(u) = {})
                 /\ ((Unwinds(t) /\ task[u].pc \in TtsPcs) => barge_in' = barge_in)
                 /\ ((HandlerResets(t) /\ task[u].pc \in TtsPcs)
                        => is_speaking' = is_speaking)]_vars

====
